---- MODULE Spec2Model ----
(***************************************************************************)
(* The IRCON storage engine (ha_ircon.cc): a table whose single synthetic  *)
(* row is the cached state of a remote device.  One Ircon_share (socket,   *)
(* connected flag, four attribute buffers) is shared by every handler      *)
(* opened on the table; write/update push "name:value," tokens on the      *)
(* socket, delete resets the cache, a table scan returns one row.          *)
(*                                                                         *)
(* Strings are sequences of one-character strings, so that strncmp, the    *)
(* C-string copies and the byte stream are computed character by           *)
(* character.                                                              *)
(***************************************************************************)
EXTENDS Integers, Sequences, FiniteSets, TLC

(***************************************************************************)
(* Names and sizes declared in ha_ircon.h.                                  *)
(***************************************************************************)
IRCON_COMMAND_MODE == <<"m", "o", "d", "e">>

IRCON_COMMAND_TEMPERATURE == <<"t", "e", "m", "p", "e", "r", "a", "t", "u", "r", "e">>

IRCON_COMMAND_POWER == <<"p", "o", "w", "e", "r">>

IRCON_COMMAND_ANGLE == <<"a", "n", "g", "l", "e">>

IRCON_COMMAND_UNKNOWN == <<"u", "n", "k", "n", "o", "w", "n">>

\* Size of each state_* buffer: a C string of at most IRCON_COMMAND_LENGTH - 1
\* characters and its terminating NUL fit.
IRCON_COMMAND_LENGTH == 8

\* The four attributes, in the order of the if / else-if chains.
AttrOrder == <<"mode", "temperature", "power", "angle">>

Attrs == {AttrOrder[i] : i \in 1..Len(AttrOrder)}

AttrName(a) ==
  CASE a = "mode" -> IRCON_COMMAND_MODE
    [] a = "temperature" -> IRCON_COMMAND_TEMPERATURE
    [] a = "power" -> IRCON_COMMAND_POWER
    [] a = "angle" -> IRCON_COMMAND_ANGLE

NoAttr == "none"

(***************************************************************************)
(* Result codes.                                                           *)
(***************************************************************************)
RC_OK == "0"

\* open(): socket() failed.
RC_SOCKET_FAILED == "-1"

\* open(): get_share() returned no share.
RC_NO_SHARE == "1"

HA_ERR_WRONG_COMMAND == "HA_ERR_WRONG_COMMAND"

HA_ERR_END_OF_FILE == "HA_ERR_END_OF_FILE"

(***************************************************************************)
(* C strings.                                                              *)
(***************************************************************************)
NUL == "NUL"

\* The i-th character of the C string s (1-based); the terminator past its end.
CharAt(s, i) == IF i <= Len(s) THEN s[i] ELSE NUL

Min(a, b) == IF a < b THEN a ELSE b

\* strncmp(s1, s2, n) == 0, compared from position i on: at most n characters,
\* stopping at the first difference or at the terminator.
RECURSIVE StrncmpFrom(_, _, _, _)
StrncmpFrom(s1, s2, i, n) ==
  IF i > n THEN TRUE
  ELSE IF CharAt(s1, i) # CharAt(s2, i) THEN FALSE
  ELSE IF CharAt(s1, i) = NUL THEN TRUE
  ELSE StrncmpFrom(s1, s2, i + 1, n)

StrncmpEq(s1, s2, n) == StrncmpFrom(s1, s2, 1, n)

\* The first n characters strncpy(dst, src, n) copies from src.
Strncpy(src, n) == SubSeq(src, 1, Min(Len(src), n))

\* The characters of v that do not fit a state_* buffer.
Spill(v) == SubSeq(v, IRCON_COMMAND_LENGTH + 1, Len(v))

\* The first attribute of the else-if chain whose name compares equal to
\* field_name over n characters.
RECURSIVE MatchFrom(_, _, _)
MatchFrom(field_name, n, k) ==
  IF k > Len(AttrOrder) THEN NoAttr
  ELSE IF StrncmpEq(field_name, AttrName(AttrOrder[k]), n) THEN AttrOrder[k]
  ELSE MatchFrom(field_name, n, k + 1)

\* Field::store(res, strlen(res)) into a string field of field_length characters.
FieldStore(res, field_length) == SubSeq(res, 1, Min(Len(res), field_length))

(***************************************************************************)
(* The tables (column name, declared length) and the values of the model.  *)
(***************************************************************************)
\* A column: the Field's name and declared length, and the values the model
\* writes through it.
Col(name, len, inputs) == [field_name |-> name, field_length |-> len, inputs |-> inputs]

Heat == <<"h", "e", "a", "t">>

V72 == <<"7", "2">>

\* One character more than a state_* buffer holds.
Overlong == <<"t", "o", "o", "_", "l", "o", "n", "g", "!">>

Values == {<<>>, V72, Heat, Overlong}

\* The declared length of an ordinary column.
FieldLen == 16

TableFull ==
  << Col(IRCON_COMMAND_MODE, FieldLen, {<<>>, Heat, V72}),
     Col(IRCON_COMMAND_TEMPERATURE, FieldLen, {<<>>, V72}),
     Col(IRCON_COMMAND_POWER, FieldLen, {<<>>, V72}),
     Col(IRCON_COMMAND_ANGLE, FieldLen, {<<>>, V72}) >>

TableModeOnly == << Col(IRCON_COMMAND_MODE, FieldLen, {<<>>, Heat, V72}) >>

TableLong == << Col(IRCON_COMMAND_MODE, FieldLen, {<<>>, Heat, Overlong}) >>

\* "mo" is a proper prefix of "mode"; "Mode" differs in case.
TablePrefix ==
  << Col(<<"m", "o">>, FieldLen, {<<>>, Heat}),
     Col(IRCON_COMMAND_MODE, FieldLen, {<<>>, Heat, V72}),
     Col(<<"M", "o", "d", "e">>, FieldLen, {<<>>, V72}) >>

\* "id" is no attribute at all; "modes" extends "mode" and is declared no
\* longer than "mode".
TableOther ==
  << Col(<<"i", "d">>, FieldLen, {<<>>, V72}),
     Col(<<"m", "o", "d", "e", "s">>, Len(IRCON_COMMAND_MODE), {<<>>, Heat}),
     Col(IRCON_COMMAND_TEMPERATURE, FieldLen, {<<>>, V72}) >>

Tables == {TableFull, TableModeOnly, TableLong, TablePrefix, TableOther}

\* The rows a session can hand to write_row / update_row: one value per column
\* (val_str), no longer than the column.
RowsOfTable ==
  [t \in Tables |->
     {r \in [1..Len(t) -> Values] :
        \A i \in 1..Len(t) : r[i] \in t[i].inputs /\ Len(r[i]) <= t[i].field_length}]

RowsOf(t) == RowsOfTable[t]

Fields == UNION {{t[i] : i \in 1..Len(t)} : t \in Tables}

\* write_update_row: the attribute each field is taken for; the bound of the
\* comparison is strlen(field_name).
WriteMatchOfField == [f \in Fields |-> MatchFrom(f.field_name, Len(f.field_name), 1)]

\* The comparison bounded by the attribute's name too: equal names only.
WriteMatchExact(f) ==
  LET named == {a \in Attrs : AttrName(a) = f.field_name}
  IN IF named = {} THEN NoAttr ELSE CHOOSE a \in named : TRUE

WriteMatch(f) == WriteMatchOfField[f]

\* rnd_next: the attribute each field is taken for; the bound of the comparison
\* is the field's declared length.
ReadMatchOfField == [f \in Fields |-> MatchFrom(f.field_name, f.field_length, 1)]

ReadMatch(f) == ReadMatchOfField[f]

(***************************************************************************)
(* The device identifier: host and port taken from the table name.         *)
(***************************************************************************)
\* char *ip_port_buf = new char[32]
IP_PORT_BUF == 32

\* IRCON_DEFAULT_PORT; the source and the description give no number for it:
\* any number that no modelled name spells stands for it.
IRCON_DEFAULT_PORT == 51013

Digits == <<"0", "1", "2", "3", "4", "5", "6", "7", "8", "9">>

IsDigit(ch) == \E d \in 1..Len(Digits) : Digits[d] = ch

DigitValue(ch) == (CHOOSE d \in 1..Len(Digits) : Digits[d] = ch) - 1

\* The digits of s from position i on, read into acc until the first character
\* that is no digit.
RECURSIVE AtoiDigits(_, _, _)
AtoiDigits(s, i, acc) ==
  IF i <= Len(s) /\ IsDigit(s[i])
    THEN AtoiDigits(s, i + 1, acc * 10 + DigitValue(s[i]))
    ELSE acc

\* atoi(): an optional sign, then digits; 0 when there is no digit.
Atoi(s) ==
  IF s # <<>> /\ s[1] = "-" THEN 0 - AtoiDigits(s, 2, 0)
  ELSE IF s # <<>> /\ s[1] = "+" THEN AtoiDigits(s, 2, 0)
  ELSE AtoiDigits(s, 1, 0)

\* The position in buf (from 0, as the loop counts) of the first ':', or -1.
FirstColon(buf) ==
  IF \E i \in 1..Len(buf) : buf[i] = ":"
    THEN (CHOOSE i \in 1..Len(buf) : buf[i] = ":" /\ \A j \in 1..(i - 1) : buf[j] # ":") - 1
    ELSE -1

\* The port open() computes from the table name: strncpy of IP_PORT_BUF
\* characters, atoi behind the first ':' unless it is the last character of
\* the buffer, the default when that gives 0.
ParsePort(name) ==
  LET buf == Strncpy(name, IP_PORT_BUF)
      i == FirstColon(buf)
      port == IF i >= 0 /\ i < IP_PORT_BUF - 1
                THEN Atoi(SubSeq(buf, i + 2, Len(buf)))
                ELSE 0
  IN IF port = 0 THEN IRCON_DEFAULT_PORT ELSE port

\* htons(port): the low 16 bits of port are what goes into sin_port.
Htons(port) == port % 65536

\* The name of the table of the behaviours that do not vary it.
DeviceName == <<"h", ":", "7">>

(***************************************************************************)
(* State.                                                                  *)
(***************************************************************************)
\* The handler objects (sessions) of the one table.
Handlers == {"h1", "h2"}

\* Descriptors the process can hold for this table's sockets.
MaxFd == 2

Fds == 1..MaxFd

VARIABLES
  table,          \* the table's columns (fixed for a behaviour)
  share_created,  \* the TABLE_SHARE holds an Ircon_share (get_ha_share_ptr() # NULL)
  socket_opened,  \* Ircon_share::socket_opened
  socket,         \* Ircon_share::socket: a descriptor, or -1
  state,          \* Ircon_share::state_mode, state_temperature, state_power, state_angle
  fds,            \* the descriptors that are open
  conn,           \* the open descriptors whose connect() succeeded
  handler_share,  \* ha_ircon::share of each handler
  is_open,        \* the handler is between a successful open() and its close()
  next_is_eof,    \* ha_ircon::next_is_eof of each handler
  scan,           \* per handler: rnd_next() calls since its last rnd_init()
  last,           \* the most recent call
  rc,             \* what the most recent call returned
  sent,           \* the bytes the most recent call passed to send(), in order
  row,            \* the row the most recent call stored into buf
  table_name,     \* table_share->table_name.str, the device identifier
  sin_port,       \* the port the most recent connect() was made to (host order)
  my_close_rc,    \* what the most recent my_close() returned
  pc,             \* per handler: where its thread stands inside a call
  ha_lock,        \* the holder of lock_shared_ha_data(), or "free"
  ha_share_ptr,   \* get_ha_share_ptr(): the installed Ircon_share, 0 for NULL
  nshares,        \* how many Ircon_share objects were constructed
  held,           \* per handler: the Ircon_share its get_share() returned, 0 for none
  wrow,           \* per handler: the row its write is sending or its rnd_next() is filling
  wcol,           \* per handler: the field or buffer its call is at
  wire            \* per descriptor: the bytes sent on it, in order of the send() calls

\* The variables that only the statement-by-statement actions change.
tvars == << pc, ha_lock, ha_share_ptr, nshares, held, wrow, wcol, wire >>

vars ==
  << table, share_created, socket_opened, socket, state, fds, conn, handler_share,
     is_open, next_is_eof, scan, last, rc, sent, row, table_name, sin_port,
     my_close_rc, tvars >>

\* What the calls on an already created and opened table leave alone, but for
\* open(), which connects, and close(), which closes.
kept == << tvars, table_name, table, sin_port, my_close_rc >>

\* What a state_* buffer can be read as.
CacheValues == Values \cup {IRCON_COMMAND_UNKNOWN, Spill(Overlong)}

NoRow == <<>>

MY_CLOSE_NONE == "none"

MY_CLOSE_OK == "0"

MY_CLOSE_FAILED == "-1"

\* my_close(fd): closes an open descriptor; fails on one that is not open.
MyClose(fd) == IF fd \in fds THEN MY_CLOSE_OK ELSE MY_CLOSE_FAILED

\* No connect() was made yet.
NoPort == -1

\* No thread is inside a call, no share was constructed, nothing was sent.
ThreadsIdle ==
  /\ pc = [h \in Handlers |-> "idle"]
  /\ ha_lock = "free"
  /\ ha_share_ptr = 0
  /\ nshares = 0
  /\ held = [h \in Handlers |-> 0]
  /\ wrow = [h \in Handlers |-> <<>>]
  /\ wcol = [h \in Handlers |-> 0]
  /\ wire = [f \in Fds |-> <<>>]

\* Ircon_share() sets socket_opened only; new (mem_root) ha_ircon sets nothing:
\* socket, the four buffers and next_is_eof start with whatever the memory held.
\* Nothing reads the buffers before the first connect overwrites them, so one
\* value per behaviour stands for their first content.
Init ==
  /\ table \in Tables
  /\ share_created = FALSE
  /\ socket_opened = FALSE
  /\ socket \in {-1} \cup Fds
  /\ state \in {[a \in Attrs |-> g] : g \in CacheValues}
  /\ fds = {}
  /\ conn = {}
  /\ handler_share = [h \in Handlers |-> "NULL"]
  /\ is_open = [h \in Handlers |-> FALSE]
  /\ \E b \in BOOLEAN : next_is_eof = [h \in Handlers |-> b]
  /\ scan = [h \in Handlers |-> "none"]
  /\ last = "none"
  /\ rc = RC_OK
  /\ sent = <<>>
  /\ row = NoRow
  /\ table_name = DeviceName
  /\ sin_port = NoPort
  /\ my_close_rc = MY_CLOSE_NONE
  /\ ThreadsIdle

(***************************************************************************)
(* open() and close().                                                     *)
(***************************************************************************)
\* The four strncpy(share->state_*, IRCON_COMMAND_UNKNOWN, IRCON_COMMAND_LENGTH).
ResetStateShort == [a \in Attrs |-> Strncpy(IRCON_COMMAND_UNKNOWN, Len(IRCON_COMMAND_MODE))]

ResetState == [a \in Attrs |-> Strncpy(IRCON_COMMAND_UNKNOWN, IRCON_COMMAND_LENGTH)]

\* if (!share->socket_opened): open() has to create the socket and connect.
NeedsConnectAlways == TRUE

NeedsConnect == ~socket_opened

\* socket(AF_INET, SOCK_STREAM, 0): -1, or the lowest descriptor not in use.
SocketResults ==
  {-1} \cup {f \in Fds : f \notin fds /\ \A g \in Fds : g < f => g \in fds}

\* get_share() finds no share and new Ircon_share yields none: open() returns 1.
OpenNoShare(h) ==
  /\ ~is_open[h]
  /\ ~share_created
  /\ handler_share' = [handler_share EXCEPT ![h] = "NULL"]
  /\ rc' = RC_NO_SHARE
  /\ last' = "open"
  /\ sent' = <<>>
  /\ row' = NoRow
  /\ UNCHANGED << kept, share_created, socket_opened, socket, state, fds, conn,
                  is_open, next_is_eof, scan >>

\* An open() that marks the share connected before it looks at what socket()
\* returned.
OpenSocketFailsMarked(h) ==
  /\ ~is_open[h]
  /\ NeedsConnect
  /\ -1 \in SocketResults
  /\ share_created' = TRUE
  /\ handler_share' = [handler_share EXCEPT ![h] = "share"]
  /\ socket' = -1
  /\ rc' = RC_SOCKET_FAILED
  /\ last' = "open"
  /\ sent' = <<>>
  /\ row' = NoRow
  /\ socket_opened' = TRUE
  /\ UNCHANGED << kept, state, fds, conn, is_open, next_is_eof, scan >>

\* The share is not connected and socket() fails: open() returns -1 with the
\* failed result already stored in share->socket.
OpenSocketFails(h) ==
  /\ ~is_open[h]
  /\ NeedsConnect
  /\ -1 \in SocketResults
  /\ share_created' = TRUE
  /\ handler_share' = [handler_share EXCEPT ![h] = "share"]
  /\ socket' = -1
  /\ rc' = RC_SOCKET_FAILED
  /\ last' = "open"
  /\ sent' = <<>>
  /\ row' = NoRow
  /\ UNCHANGED << kept, socket_opened, state, fds, conn, is_open, next_is_eof, scan >>

\* The share is not connected and socket() succeeds: connect (its result is not
\* looked at), mark the share connected, reset the four buffers.
OpenConnect(h) ==
  /\ ~is_open[h]
  /\ NeedsConnect
  /\ \E s \in SocketResults \ {-1}, connected \in BOOLEAN :
       /\ socket' = s
       /\ fds' = fds \cup {s}
       /\ conn' = IF connected THEN conn \cup {s} ELSE conn
  /\ share_created' = TRUE
  /\ handler_share' = [handler_share EXCEPT ![h] = "share"]
  /\ socket_opened' = TRUE
  /\ state' = ResetState
  /\ is_open' = [is_open EXCEPT ![h] = TRUE]
  /\ rc' = RC_OK
  /\ last' = "open"
  /\ sent' = <<>>
  /\ row' = NoRow
  /\ sin_port' = Htons(ParsePort(table_name))
  /\ UNCHANGED << tvars, table_name, table, my_close_rc, next_is_eof, scan >>

\* The share is already connected: open() only takes the share.
OpenConnected(h) ==
  /\ ~is_open[h]
  /\ ~NeedsConnect
  /\ share_created' = TRUE
  /\ handler_share' = [handler_share EXCEPT ![h] = "share"]
  /\ is_open' = [is_open EXCEPT ![h] = TRUE]
  /\ rc' = RC_OK
  /\ last' = "open"
  /\ sent' = <<>>
  /\ row' = NoRow
  /\ UNCHANGED << kept, socket_opened, socket, state, fds, conn, next_is_eof, scan >>

Open(h) == OpenNoShare(h) \/ OpenSocketFails(h) \/ OpenConnect(h) \/ OpenConnected(h)

\* A close() that also puts the four buffers back to the sentinel.
CloseForgetsCache(h) ==
  /\ is_open[h]
  /\ fds' = fds \ {socket}
  /\ conn' = conn \ {socket}
  /\ socket_opened' = FALSE
  /\ state' = ResetState
  /\ is_open' = [is_open EXCEPT ![h] = FALSE]
  /\ scan' = [scan EXCEPT ![h] = "none"]
  /\ rc' = RC_OK
  /\ last' = "close"
  /\ sent' = <<>>
  /\ row' = NoRow
  /\ my_close_rc' = MyClose(socket)
  /\ UNCHANGED << tvars, table_name, table, sin_port, share_created, socket,
                  handler_share, next_is_eof >>

\* close(): shutdown and close share->socket and clear the flag, whatever the
\* flag was and whoever else holds the share.
Close(h) ==
  /\ is_open[h]
  /\ fds' = fds \ {socket}
  /\ conn' = conn \ {socket}
  /\ socket_opened' = FALSE
  /\ is_open' = [is_open EXCEPT ![h] = FALSE]
  /\ scan' = [scan EXCEPT ![h] = "none"]
  /\ rc' = RC_OK
  /\ last' = "close"
  /\ sent' = <<>>
  /\ row' = NoRow
  /\ my_close_rc' = MyClose(socket)
  /\ UNCHANGED << tvars, table_name, table, sin_port, share_created, socket, state,
                  handler_share, next_is_eof >>

(***************************************************************************)
(* write_row(), update_row(), delete_row().                                *)
(***************************************************************************)
\* The store of a value that does not fit: strncpy writes all its characters
\* and the terminator goes behind them, past the end of the buffer.  The buffer
\* then reads as the whole value.  The source does not fix what lies behind the
\* buffer: nothing the model reads, or the buffer of the next attribute, which
\* then reads as the characters that spilled into it (Spill).
NextAttr(a) ==
  LET k == CHOOSE i \in 1..Len(AttrOrder) : AttrOrder[i] = a
  IN IF k < Len(AttrOrder) THEN {AttrOrder[k + 1]} ELSE {}

OverflowOutcomes(c, a, v) ==
  {[c EXCEPT ![a] = v]} \cup {[c EXCEPT ![a] = v, ![b] = Spill(v)] : b \in NextAttr(a)}

\* if (attribute.length() > 0) { strncpy(state_a, attribute.ptr(), length);
\* state_a[length] = '\0'; }: the caches that can result.
StoreAttr(c, a, v) ==
  IF Len(v) = 0 THEN {c}
  ELSE IF Len(v) < IRCON_COMMAND_LENGTH THEN {[c EXCEPT ![a] = Strncpy(v, Len(v))]}
  ELSE OverflowOutcomes(c, a, v)

\* The four send() calls of one recognized field: its name, ":", the buffer, ",".
Token(field_name, value) == field_name \o <<":">> \o value \o <<",">>

\* What one recognized field with value v puts on the socket, buf being the
\* attribute's buffer after the store: the token, whether or not v is empty.
FieldBytesIfSet(f, v, buf) == IF Len(v) = 0 THEN <<>> ELSE Token(f.field_name, buf)

FieldBytes(f, v, buf) == Token(f.field_name, buf)

\* The loop over table->field from field i on, with cache c and the bytes out
\* sent so far: the (cache, bytes) pairs the call can end with.
RECURSIVE WriteFields(_, _, _, _, _)
WriteFields(t, r, i, c, out) ==
  IF i > Len(t) THEN {[cache |-> c, sent |-> out \o <<"\n">>]}
  ELSE LET a == WriteMatch(t[i])
       IN IF a = NoAttr THEN WriteFields(t, r, i + 1, c, out)
          ELSE UNION {WriteFields(t, r, i + 1, c2, out \o FieldBytes(t[i], r[i], c2[a]))
                        : c2 \in StoreAttr(c, a, r[i])}

\* write_update_row() that gives up with -1, before any store, when the
\* socket is not connected.
write_update_row_checks_send(h, r) ==
  /\ is_open[h]
  /\ IF socket \in conn
       THEN /\ \E res \in WriteFields(table, r, 1, state, <<>>) :
                 /\ state' = res.cache
                 /\ sent' = res.sent
            /\ rc' = RC_OK
       ELSE /\ state' = state
            /\ sent' = <<>>
            /\ rc' = RC_SOCKET_FAILED
  /\ last' = "write_update_row"
  /\ row' = NoRow
  /\ UNCHANGED << kept, share_created, socket_opened, socket, fds, conn, handler_share,
                  is_open, next_is_eof, scan >>

write_update_row(h, r) ==
  /\ is_open[h]
  /\ \E res \in WriteFields(table, r, 1, state, <<>>) :
       /\ state' = res.cache
       /\ sent' = res.sent
  /\ rc' = RC_OK
  /\ last' = "write_update_row"
  /\ row' = NoRow
  /\ UNCHANGED << kept, share_created, socket_opened, socket, fds, conn, handler_share,
                  is_open, next_is_eof, scan >>

write_row(h) == \E r \in RowsOf(table) : write_update_row(h, r)

update_row(h) == \E r \in RowsOf(table) : write_update_row(h, r)

\* send(share->socket, "mode:-,\n", 8, 0).
DeleteCommandNoNewline == <<"m", "o", "d", "e", ":", "-", ",">>

DeleteCommand == <<"m", "o", "d", "e", ":", "-", ",", "\n">>

\* delete_row() that also starts the scan over.
delete_row_rearms(h) ==
  /\ is_open[h]
  /\ state' = ResetState
  /\ sent' = DeleteCommand
  /\ rc' = RC_OK
  /\ last' = "delete_row"
  /\ row' = NoRow
  /\ next_is_eof' = [next_is_eof EXCEPT ![h] = FALSE]
  /\ UNCHANGED << kept, share_created, socket_opened, socket, fds, conn, handler_share,
                  is_open, scan >>

delete_row(h) ==
  /\ is_open[h]
  /\ state' = ResetState
  /\ sent' = DeleteCommand
  /\ rc' = RC_OK
  /\ last' = "delete_row"
  /\ row' = NoRow
  /\ UNCHANGED << kept, share_created, socket_opened, socket, fds, conn, handler_share,
                  is_open, next_is_eof, scan >>

(***************************************************************************)
(* The table scan.                                                         *)
(***************************************************************************)
\* rnd_init() that leaves next_is_eof as the last scan left it.
rnd_init_keeps_eof(h) ==
  /\ is_open[h]
  /\ scan' = [scan EXCEPT ![h] = "armed"]
  /\ rc' = RC_OK
  /\ last' = "rnd_init"
  /\ sent' = <<>>
  /\ row' = NoRow
  /\ UNCHANGED << kept, share_created, socket_opened, socket, state, fds, conn,
                  handler_share, is_open, next_is_eof >>

rnd_init(h) ==
  /\ is_open[h]
  /\ next_is_eof' = [next_is_eof EXCEPT ![h] = FALSE]
  /\ scan' = [scan EXCEPT ![h] = "armed"]
  /\ rc' = RC_OK
  /\ last' = "rnd_init"
  /\ sent' = <<>>
  /\ row' = NoRow
  /\ UNCHANGED << kept, share_created, socket_opened, socket, state, fds, conn,
                  handler_share, is_open >>

\* What rnd_next stores into one field: the buffer of the matched attribute, or
\* the sentinel, cut to the field by Field::store.
ReadField(f, c) ==
  LET a == ReadMatch(f)
      res == IF a = NoAttr THEN IRCON_COMMAND_UNKNOWN ELSE c[a]
  IN FieldStore(res, f.field_length)

ReadRow(t, c) == [i \in 1..Len(t) |-> ReadField(t[i], c)]

\* The server calls rnd_next() only inside a scan it started with rnd_init().
rnd_next(h) ==
  /\ is_open[h]
  /\ scan[h] # "none"
  /\ IF next_is_eof[h]
       THEN /\ rc' = HA_ERR_END_OF_FILE
            /\ row' = NoRow
            /\ UNCHANGED next_is_eof
       ELSE /\ rc' = RC_OK
            /\ row' = ReadRow(table, state)
            /\ next_is_eof' = [next_is_eof EXCEPT ![h] = TRUE]
  /\ scan' = [scan EXCEPT ![h] = "read"]
  /\ last' = "rnd_next"
  /\ sent' = <<>>
  /\ UNCHANGED << kept, share_created, socket_opened, socket, state, fds, conn,
                  handler_share, is_open >>

(***************************************************************************)
(* The calls that only return HA_ERR_WRONG_COMMAND.                        *)
(***************************************************************************)
\* A bulk delete that is carried out like delete_row() before it reports
\* HA_ERR_WRONG_COMMAND.
WrongCommandAfterReset(h) ==
  /\ rc' = HA_ERR_WRONG_COMMAND
  /\ last' = "wrong_command"
  /\ state' = ResetState
  /\ sent' = DeleteCommand
  /\ row' = NoRow
  /\ UNCHANGED << kept, share_created, socket_opened, socket, fds, conn,
                  handler_share, is_open, next_is_eof, scan >>

WrongCommand(h) ==
  /\ rc' = HA_ERR_WRONG_COMMAND
  /\ last' = "wrong_command"
  /\ sent' = <<>>
  /\ row' = NoRow
  /\ UNCHANGED << kept, share_created, socket_opened, socket, state, fds, conn,
                  handler_share, is_open, next_is_eof, scan >>

index_read_map(h) == WrongCommand(h)

index_next(h) == WrongCommand(h)

index_prev(h) == WrongCommand(h)

index_first(h) == WrongCommand(h)

index_last(h) == WrongCommand(h)

rnd_pos(h) == WrongCommand(h)

delete_all_rows(h) == WrongCommand(h)

truncate(h) == WrongCommand(h)

rename_table(h) == WrongCommand(h)

Next ==
  \E h \in Handlers :
    \/ Open(h)
    \/ Close(h)
    \/ write_row(h)
    \/ update_row(h)
    \/ delete_row(h)
    \/ rnd_init(h)
    \/ rnd_next(h)
    \/ index_read_map(h)
    \/ index_next(h)
    \/ index_prev(h)
    \/ index_first(h)
    \/ index_last(h)
    \/ rnd_pos(h)
    \/ delete_all_rows(h)
    \/ truncate(h)
    \/ rename_table(h)

Spec == Init /\ [][Next]_vars

(***************************************************************************)
(* The same calls on tables of many names, for what open() makes of the    *)
(* name.                                                                   *)
(***************************************************************************)
\* The characters of the modelled names.
NameChars == {"h", ":", "-", "0", "7"}

\* The longest of the names that are enumerated.
MaxNameLen == 3

\* A name whose ':' is the last character of ip_port_buf, a port behind it.
LongName == [i \in 1..(IP_PORT_BUF + 1) |->
               IF i < IP_PORT_BUF THEN "h" ELSE IF i = IP_PORT_BUF THEN ":" ELSE "7"]

Names ==
  UNION {[1..n -> NameChars] : n \in 1..MaxNameLen}
    \cup {<<"h", ":", "7", "0">>, <<"h", ":", "-", "7">>, <<"h", ":", "7", "h">>,
          <<"h", ":", "+", "7">>, <<"h", ":", "h", "7">>, LongName}

InitPort ==
  /\ table = TableModeOnly
  /\ share_created = FALSE
  /\ socket_opened = FALSE
  /\ socket = -1
  /\ state = [a \in Attrs |-> <<>>]
  /\ fds = {}
  /\ conn = {}
  /\ handler_share = [h \in Handlers |-> "NULL"]
  /\ is_open = [h \in Handlers |-> FALSE]
  /\ next_is_eof = [h \in Handlers |-> FALSE]
  /\ scan = [h \in Handlers |-> "none"]
  /\ last = "none"
  /\ rc = RC_OK
  /\ sent = <<>>
  /\ row = NoRow
  /\ table_name \in Names
  /\ sin_port = NoPort
  /\ my_close_rc = MY_CLOSE_NONE
  /\ ThreadsIdle

SpecPort == InitPort /\ [][Next]_vars

(***************************************************************************)
(* The calls statement by statement, for what sessions running in threads  *)
(* of their own can do to each other.  open() and write_update_row() are   *)
(* taken apart at the statements that read or write the share or the       *)
(* socket; close() is one step.                                            *)
(***************************************************************************)
\* A write starts only while no descriptor's stream is longer than this.
MaxWire == 0

call_vars == << last, rc, sent, row >>

name_vars == << table, table_name >>

scan_vars == << next_is_eof, scan >>

socket_vars == << socket_opened, socket, fds, conn, sin_port, my_close_rc >>

write_vars == << wrow, wcol >>

share_vars == << ha_share_ptr, nshares, held, share_created, handler_share >>

Goto(h, label) == pc' = [pc EXCEPT ![h] = label]

\* A call of handler h returns result with the name op.
Return(h, op, result) ==
  /\ Goto(h, "idle")
  /\ last' = op
  /\ rc' = result
  /\ sent' = <<>>
  /\ row' = NoRow

\* lock_shared_ha_data() that does not wait for the mutex.
lock_shared_ha_data_no_wait(h) ==
  /\ pc[h] = "idle"
  /\ ~is_open[h]
  /\ ha_lock' = h
  /\ Goto(h, "get_ha_share_ptr")
  /\ UNCHANGED << call_vars, name_vars, scan_vars, socket_vars, write_vars, share_vars,
                  state, is_open, wire >>

\* open() enters get_share(): lock_shared_ha_data() takes the mutex of the
\* TABLE_SHARE once no other thread holds it.
lock_shared_ha_data(h) ==
  /\ pc[h] = "idle"
  /\ ~is_open[h]
  /\ ha_lock = "free"
  /\ ha_lock' = h
  /\ Goto(h, "get_ha_share_ptr")
  /\ UNCHANGED << call_vars, name_vars, scan_vars, socket_vars, write_vars, share_vars,
                  state, is_open, wire >>

\* if (!(tmp_share = get_ha_share_ptr())): the share that is installed is
\* taken, or a new one has to be made.
get_ha_share_ptr(h) ==
  /\ pc[h] = "get_ha_share_ptr"
  /\ held' = [held EXCEPT ![h] = ha_share_ptr]
  /\ Goto(h, IF ha_share_ptr = 0 THEN "new_share" ELSE "unlock")
  /\ UNCHANGED << call_vars, name_vars, scan_vars, socket_vars, write_vars, ha_share_ptr,
                  nshares, share_created, handler_share, state, is_open, wire, ha_lock >>

\* tmp_share = new Ircon_share; set_ha_share_ptr(tmp_share).
set_ha_share_ptr(h) ==
  /\ pc[h] = "new_share"
  /\ nshares' = nshares + 1
  /\ ha_share_ptr' = nshares + 1
  /\ held' = [held EXCEPT ![h] = nshares + 1]
  /\ share_created' = TRUE
  /\ Goto(h, "unlock")
  /\ UNCHANGED << call_vars, name_vars, scan_vars, socket_vars, write_vars, handler_share,
                  state, is_open, wire, ha_lock >>

\* new Ircon_share gives no object: goto err with tmp_share NULL.
new_share_fails(h) ==
  /\ pc[h] = "new_share"
  /\ Goto(h, "unlock")
  /\ UNCHANGED << call_vars, name_vars, scan_vars, socket_vars, write_vars, share_vars,
                  state, is_open, wire, ha_lock >>

\* unlock_shared_ha_data() and the return of get_share(); open() returns 1 when
\* it got no share.
unlock_shared_ha_data(h) ==
  /\ pc[h] = "unlock"
  /\ ha_lock' = "free"
  /\ handler_share' = [handler_share EXCEPT ![h] = IF held[h] = 0 THEN "NULL" ELSE "share"]
  /\ IF held[h] = 0
       THEN Return(h, "open", RC_NO_SHARE)
       ELSE Goto(h, "socket_opened") /\ UNCHANGED call_vars
  /\ UNCHANGED << name_vars, scan_vars, socket_vars, write_vars, ha_share_ptr, nshares,
                  held, share_created, state, is_open, wire >>

\* if (!share->socket_opened): a connected share is taken as it is.
open_socket_opened(h) ==
  /\ pc[h] = "socket_opened"
  /\ IF socket_opened
       THEN /\ is_open' = [is_open EXCEPT ![h] = TRUE]
            /\ Return(h, "open", RC_OK)
       ELSE /\ Goto(h, "socket")
            /\ UNCHANGED << call_vars, is_open >>
  /\ UNCHANGED << name_vars, scan_vars, socket_vars, write_vars, share_vars, state, wire,
                  ha_lock >>

\* share->socket = socket(AF_INET, SOCK_STREAM, 0), and the return of -1.
open_socket(h) ==
  /\ pc[h] = "socket"
  /\ \E s \in SocketResults :
       /\ socket' = s
       /\ IF s < 0
            THEN /\ Return(h, "open", RC_SOCKET_FAILED)
                 /\ UNCHANGED << fds, wire >>
            ELSE /\ fds' = fds \cup {s}
                 /\ wire' = [wire EXCEPT ![s] = <<>>]
                 /\ Goto(h, "connect")
                 /\ UNCHANGED call_vars
  /\ UNCHANGED << name_vars, scan_vars, write_vars, share_vars, state, is_open, ha_lock,
                  socket_opened, conn, sin_port, my_close_rc >>

\* connect(share->socket, ...), socket_opened = true, the four strncpy and the
\* return of 0.  The descriptor is the one the share holds now.
open_connect(h) ==
  /\ pc[h] = "connect"
  /\ \E connected \in BOOLEAN :
       conn' = IF connected /\ socket \in fds THEN conn \cup {socket} ELSE conn
  /\ sin_port' = Htons(ParsePort(table_name))
  /\ socket_opened' = TRUE
  /\ state' = ResetState
  /\ is_open' = [is_open EXCEPT ![h] = TRUE]
  /\ Return(h, "open", RC_OK)
  /\ UNCHANGED << name_vars, scan_vars, write_vars, share_vars, wire, ha_lock, socket, fds,
                  my_close_rc >>

\* close() by a thread that is in no other call; what was sent on the
\* descriptor it closes is of no interest any more.
close(h) ==
  /\ pc[h] = "idle"
  /\ is_open[h]
  /\ fds' = fds \ {socket}
  /\ conn' = conn \ {socket}
  /\ my_close_rc' = MyClose(socket)
  /\ wire' = IF socket \in Fds THEN [wire EXCEPT ![socket] = <<>>] ELSE wire
  /\ socket_opened' = FALSE
  /\ is_open' = [is_open EXCEPT ![h] = FALSE]
  /\ scan' = [scan EXCEPT ![h] = "none"]
  /\ Return(h, "close", RC_OK)
  /\ UNCHANGED << name_vars, write_vars, share_vars, state, ha_lock, socket, sin_port,
                  next_is_eof >>

\* write_row() or update_row() starts on a row.
write_begin(h) ==
  /\ pc[h] = "idle"
  /\ is_open[h]
  /\ \A f \in Fds : Len(wire[f]) <= MaxWire
  /\ \E r \in RowsOf(table) : wrow' = [wrow EXCEPT ![h] = r]
  /\ wcol' = [wcol EXCEPT ![h] = 1]
  /\ Goto(h, "field")
  /\ UNCHANGED << call_vars, name_vars, scan_vars, socket_vars, share_vars, state, is_open,
                  wire, ha_lock >>

\* The head of the loop over the fields: val_str, the strncmp chain and the
\* store of a non-empty value; behind the last field comes the newline.
write_field(h) ==
  /\ pc[h] = "field"
  /\ IF wcol[h] > Len(table)
       THEN Goto(h, "send_newline") /\ UNCHANGED << state, wcol >>
       ELSE LET a == WriteMatch(table[wcol[h]])
            IN IF a = NoAttr
                 THEN /\ wcol' = [wcol EXCEPT ![h] = @ + 1]
                      /\ UNCHANGED << pc, state >>
                 ELSE /\ state' \in StoreAttr(state, a, wrow[h][wcol[h]])
                      /\ Goto(h, "send_name")
                      /\ UNCHANGED wcol
  /\ UNCHANGED << call_vars, name_vars, scan_vars, socket_vars, share_vars, is_open, wire,
                  ha_lock, wrow >>

\* send(share->socket, bytes, ...): the bytes go behind what the descriptor
\* the share holds now was sent before.
Send(bytes) ==
  wire' = IF socket \in Fds THEN [wire EXCEPT ![socket] = @ \o bytes] ELSE wire

WriteStep(h, from, bytes, to) ==
  /\ pc[h] = from
  /\ Send(bytes)
  /\ Goto(h, to)
  /\ UNCHANGED << call_vars, name_vars, scan_vars, socket_vars, share_vars, state, is_open,
                  ha_lock, wrow >>

\* A write that sends the whole token of the field in one send().
send_name_buffered(h) ==
  /\ pc[h] = "send_name"
  /\ WriteStep(h, "send_name",
               Token(table[wcol[h]].field_name, state[WriteMatch(table[wcol[h]])]),
               "field")
  /\ wcol' = [wcol EXCEPT ![h] = @ + 1]

\* send(share->socket, field_name, strlen(field_name), 0)
send_name(h) ==
  /\ pc[h] = "send_name"
  /\ WriteStep(h, "send_name", table[wcol[h]].field_name, "send_colon")
  /\ UNCHANGED wcol

\* send(share->socket, ":", 1, 0)
send_colon(h) ==
  /\ WriteStep(h, "send_colon", <<":">>, "send_value")
  /\ UNCHANGED wcol

\* send(share->socket, share->state_*, strlen(share->state_*), 0): the buffer
\* as it is now.
send_value(h) ==
  /\ pc[h] = "send_value"
  /\ WriteStep(h, "send_value", state[WriteMatch(table[wcol[h]])], "send_comma")
  /\ UNCHANGED wcol

\* send(share->socket, ",", 1, 0) and on to the next field.
send_comma(h) ==
  /\ WriteStep(h, "send_comma", <<",">>, "field")
  /\ wcol' = [wcol EXCEPT ![h] = @ + 1]

\* send(share->socket, "\n", 1, 0) and the return of 0.
send_newline(h) ==
  /\ pc[h] = "send_newline"
  /\ Send(<<"\n">>)
  /\ Return(h, "write_update_row", RC_OK)
  /\ UNCHANGED << name_vars, scan_vars, socket_vars, share_vars, state, is_open, ha_lock,
                  write_vars >>

InitThreads ==
  /\ table = TableModeOnly
  /\ share_created = FALSE
  /\ socket_opened = FALSE
  /\ socket = -1
  /\ state = [a \in Attrs |-> <<>>]
  /\ fds = {}
  /\ conn = {}
  /\ handler_share = [h \in Handlers |-> "NULL"]
  /\ is_open = [h \in Handlers |-> FALSE]
  /\ next_is_eof = [h \in Handlers |-> FALSE]
  /\ scan = [h \in Handlers |-> "none"]
  /\ last = "none"
  /\ rc = RC_OK
  /\ sent = <<>>
  /\ row = NoRow
  /\ table_name = DeviceName
  /\ sin_port = NoPort
  /\ my_close_rc = MY_CLOSE_NONE
  /\ ThreadsIdle

NextThreads ==
  \E h \in Handlers :
    \/ lock_shared_ha_data(h)
    \/ get_ha_share_ptr(h)
    \/ set_ha_share_ptr(h)
    \/ new_share_fails(h)
    \/ unlock_shared_ha_data(h)
    \/ open_socket_opened(h)
    \/ open_socket(h)
    \/ open_connect(h)
    \/ close(h)
    \/ write_begin(h)
    \/ write_field(h)
    \/ send_name(h)
    \/ send_colon(h)
    \/ send_value(h)
    \/ send_comma(h)
    \/ send_newline(h)

SpecThreads == InitThreads /\ [][NextThreads]_vars

(***************************************************************************)
(* The resets and the scan statement by statement.  open() and             *)
(* delete_row() copy "unknown" into the four buffers with four strncpy     *)
(* calls, rnd_next() reads the buffers field by field, and neither takes a *)
(* lock: a step of one thread can come between any two of another.  What   *)
(* open() does before the first strncpy is taken in one step here, and so  *)
(* is the write, which always carries a value for every column, so that    *)
(* after it no buffer holds "unknown".                                     *)
(***************************************************************************)
\* The rows of table t with a value in every column.
FullRows(t) == {r \in RowsOf(t) : \A i \in 1..Len(t) : r[i] # <<>>}

\* strncpy(share->state_X, IRCON_COMMAND_UNKNOWN, IRCON_COMMAND_LENGTH) for
\* the k-th buffer.
StrncpyUnknown(c, k) ==
  [c EXCEPT ![AttrOrder[k]] = Strncpy(IRCON_COMMAND_UNKNOWN, IRCON_COMMAND_LENGTH)]

\* open() by a thread in no other call that ends without a reset: no share,
\* no socket, or a share that is connected already.
open_without_reset(h) ==
  /\ pc[h] = "idle"
  /\ OpenNoShare(h) \/ OpenSocketFails(h) \/ OpenConnected(h)

\* open() on a share that is not connected, up to share->socket_opened = true:
\* socket(), connect().  The four strncpy come after the flag is set.
open_set_socket_opened(h) ==
  /\ pc[h] = "idle"
  /\ ~is_open[h]
  /\ NeedsConnect
  /\ \E s \in SocketResults \ {-1}, connected \in BOOLEAN :
       /\ socket' = s
       /\ fds' = fds \cup {s}
       /\ conn' = IF connected THEN conn \cup {s} ELSE conn
  /\ share_created' = TRUE
  /\ handler_share' = [handler_share EXCEPT ![h] = "share"]
  /\ sin_port' = Htons(ParsePort(table_name))
  /\ socket_opened' = TRUE
  /\ wcol' = [wcol EXCEPT ![h] = 1]
  /\ Goto(h, "open_strncpy")
  /\ UNCHANGED << call_vars, name_vars, scan_vars, ha_share_ptr, nshares, held, state,
                  is_open, wire, ha_lock, my_close_rc, wrow >>

\* One of the four strncpy of open(), and behind the last the return of 0.
open_strncpy(h) ==
  /\ pc[h] = "open_strncpy"
  /\ IF wcol[h] <= Len(AttrOrder)
       THEN /\ state' = StrncpyUnknown(state, wcol[h])
            /\ wcol' = [wcol EXCEPT ![h] = @ + 1]
            /\ UNCHANGED << pc, call_vars, is_open >>
       ELSE /\ is_open' = [is_open EXCEPT ![h] = TRUE]
            /\ Return(h, "open", RC_OK)
            /\ wcol' = [wcol EXCEPT ![h] = 0]
            /\ UNCHANGED state
  /\ UNCHANGED << name_vars, scan_vars, socket_vars, share_vars, wire, ha_lock, wrow >>

\* delete_row() is entered.
delete_row_enter(h) ==
  /\ pc[h] = "idle"
  /\ is_open[h]
  /\ wcol' = [wcol EXCEPT ![h] = 1]
  /\ Goto(h, "delete_strncpy")
  /\ UNCHANGED << call_vars, name_vars, scan_vars, socket_vars, share_vars, state, is_open,
                  wire, ha_lock, wrow >>

\* One of the four strncpy of delete_row(), and behind the last the send()
\* of the command and the return of 0.
delete_strncpy(h) ==
  /\ pc[h] = "delete_strncpy"
  /\ IF wcol[h] <= Len(AttrOrder)
       THEN /\ state' = StrncpyUnknown(state, wcol[h])
            /\ wcol' = [wcol EXCEPT ![h] = @ + 1]
            /\ UNCHANGED << pc, call_vars >>
       ELSE /\ Goto(h, "idle")
            /\ last' = "delete_row"
            /\ rc' = RC_OK
            /\ sent' = DeleteCommand
            /\ row' = NoRow
            /\ wcol' = [wcol EXCEPT ![h] = 0]
            /\ UNCHANGED state
  /\ UNCHANGED << name_vars, scan_vars, socket_vars, share_vars, is_open, wire, ha_lock,
                  wrow >>

\* write_row() with a value in every column, by a thread in no other call.
write_full_row(h) ==
  /\ pc[h] = "idle"
  /\ \E r \in FullRows(table) : write_update_row(h, r)

\* rnd_init() by a thread in no other call.
scan_rnd_init(h) == pc[h] = "idle" /\ rnd_init(h)

\* rnd_next() is entered: HA_ERR_END_OF_FILE when next_is_eof is set,
\* otherwise on to the loop over the fields.
rnd_next_enter(h) ==
  /\ pc[h] = "idle"
  /\ is_open[h]
  /\ scan[h] # "none"
  /\ IF next_is_eof[h]
       THEN /\ Return(h, "rnd_next", HA_ERR_END_OF_FILE)
            /\ scan' = [scan EXCEPT ![h] = "read"]
            /\ UNCHANGED write_vars
       ELSE /\ wrow' = [wrow EXCEPT ![h] = <<>>]
            /\ wcol' = [wcol EXCEPT ![h] = 1]
            /\ Goto(h, "rnd_next_field")
            /\ UNCHANGED << call_vars, scan >>
  /\ UNCHANGED << name_vars, next_is_eof, socket_vars, share_vars, state, is_open, wire,
                  ha_lock >>

\* One pass of the loop over the fields: the buffer of the field's attribute
\* as it is now is stored in the field; behind the last field next_is_eof is
\* set and 0 returned.
rnd_next_field(h) ==
  /\ pc[h] = "rnd_next_field"
  /\ IF wcol[h] <= Len(table)
       THEN /\ wrow' = [wrow EXCEPT ![h] = Append(@, ReadField(table[wcol[h]], state))]
            /\ wcol' = [wcol EXCEPT ![h] = @ + 1]
            /\ UNCHANGED << pc, call_vars, scan_vars >>
       ELSE /\ Goto(h, "idle")
            /\ last' = "rnd_next"
            /\ rc' = RC_OK
            /\ sent' = <<>>
            /\ row' = wrow[h]
            /\ next_is_eof' = [next_is_eof EXCEPT ![h] = TRUE]
            /\ scan' = [scan EXCEPT ![h] = "read"]
            /\ wrow' = [wrow EXCEPT ![h] = <<>>]
            /\ wcol' = [wcol EXCEPT ![h] = 0]
  /\ UNCHANGED << name_vars, socket_vars, share_vars, state, is_open, wire, ha_lock >>

InitScan ==
  /\ table = TableFull
  /\ share_created = FALSE
  /\ socket_opened = FALSE
  /\ socket = -1
  /\ state = [a \in Attrs |-> <<>>]
  /\ fds = {}
  /\ conn = {}
  /\ handler_share = [h \in Handlers |-> "NULL"]
  /\ is_open = [h \in Handlers |-> FALSE]
  /\ next_is_eof = [h \in Handlers |-> FALSE]
  /\ scan = [h \in Handlers |-> "none"]
  /\ last = "none"
  /\ rc = RC_OK
  /\ sent = <<>>
  /\ row = NoRow
  /\ table_name = DeviceName
  /\ sin_port = NoPort
  /\ my_close_rc = MY_CLOSE_NONE
  /\ ThreadsIdle

NextScan ==
  \E h \in Handlers :
    \/ open_without_reset(h)
    \/ open_set_socket_opened(h)
    \/ open_strncpy(h)
    \/ close(h)
    \/ write_full_row(h)
    \/ delete_row_enter(h)
    \/ delete_strncpy(h)
    \/ scan_rnd_init(h)
    \/ rnd_next_enter(h)
    \/ rnd_next_field(h)

SpecScan == InitScan /\ [][NextScan]_vars

(***************************************************************************)
(* Properties.                                                             *)
(***************************************************************************)
Unknown == <<"u", "n", "k", "n", "o", "w", "n">>

AllUnknown == \A a \in Attrs : state[a] = Unknown

\* A step in which some handler's open() succeeds.
OpenSucceeds == \E h \in Handlers : ~is_open[h] /\ is_open'[h]

\* C1: when open() succeeds on a share that was not connected at the time of the
\* call, all four cached attributes are "unknown" when it returns, whatever
\* they held before.
C1_FreshOpenResets ==
  [][(OpenSucceeds /\ ~socket_opened) => (\A a \in Attrs : state'[a] = Unknown)]_vars

\* An open() has just succeeded for the only open handler, the other handler
\* having used and closed the share (written values may have been left in it).
C1_Witness ==
  /\ last = "open"
  /\ rc = RC_OK
  /\ \E h \in Handlers :
       /\ is_open[h]
       /\ \A g \in Handlers \ {h} : ~is_open[g] /\ handler_share[g] = "share"
  /\ AllUnknown

\* C2: an open() on a share that is already connected leaves the four cached
\* values and the socket as they were: no reset, no new socket.
C2_SecondOpenKeeps ==
  [][(OpenSucceeds /\ socket_opened)
       => /\ state' = state
          /\ socket' = socket
          /\ fds' = fds
          /\ conn' = conn
          /\ socket_opened']_vars

\* Both handlers are open, the second open() has just returned, and the cache
\* still holds a written value.
C2_Witness ==
  /\ last = "open"
  /\ rc = RC_OK
  /\ \A h \in Handlers : is_open[h]
  /\ state["mode"] = Heat
  /\ socket_opened

\* C5: a delete sets all four cached attributes to "unknown" and passes exactly
\* the 8 bytes "mode:-,\n" to the socket, whatever the cache and the scan state
\* were.
C5_DeleteResetsAndSends ==
  last = "delete_row"
    => /\ AllUnknown
       /\ sent = <<"m", "o", "d", "e", ":", "-", ",", "\n">>
       /\ Len(sent) = 8
       /\ rc = RC_OK

\* A delete has just run while a handler had read its row and reached the end.
C5_Witness ==
  /\ last = "delete_row"
  /\ \E h \in Handlers : is_open[h] /\ scan[h] = "read" /\ next_is_eof[h]

\* C6: in one session the first rnd_next() after rnd_init() returns a row with
\* OK and every further one before the next rnd_init() returns end of file;
\* each rnd_init() re-arms the session.
C6_OneRowPerScan ==
  [][\A h \in Handlers :
       rnd_next(h)
         => /\ scan[h] = "armed" => (rc' = RC_OK /\ row' # NoRow /\ Len(row') = Len(table))
            /\ scan[h] = "read" => (rc' = HA_ERR_END_OF_FILE /\ row' = NoRow)]_vars

\* A session got end of file, and the other one, scanning too, holds a row.
C6_Witness ==
  /\ last = "rnd_next"
  /\ rc = HA_ERR_END_OF_FILE
  /\ \A h \in Handlers : scan[h] = "read"

\* C7: every unsupported call returns HA_ERR_WRONG_COMMAND and changes nothing:
\* cache, connected flag, socket, scan flags; it sends nothing.
C7_UnsupportedNoEffect ==
  [][\A h \in Handlers :
       (\/ index_read_map(h) \/ index_next(h) \/ index_prev(h) \/ index_first(h)
        \/ index_last(h) \/ rnd_pos(h) \/ delete_all_rows(h) \/ truncate(h)
        \/ rename_table(h))
         => /\ rc' = HA_ERR_WRONG_COMMAND
            /\ sent' = <<>>
            /\ UNCHANGED << state, socket_opened, socket, fds, conn, next_is_eof,
                            is_open, share_created >>]_vars

\* An unsupported call has just returned in a session that is open and has
\* exhausted its scan, with a written value in the cache.
C7_Witness ==
  /\ last = "wrong_command"
  /\ rc = HA_ERR_WRONG_COMMAND
  /\ \E h \in Handlers : is_open[h] /\ next_is_eof[h] /\ scan[h] = "read"
  /\ state["mode"] = Heat

\* The columns of t that bear exactly the name of attribute a.
ColsNamed(t, a) == {i \in 1..Len(t) : t[i].field_name = AttrName(a)}

\* The columns of t whose name is exactly one of the four attribute names.
ExactCols(t) == UNION {ColsNamed(t, a) : a \in Attrs}

\* Whether the bytes sub occur in the bytes s.
Contains(s, sub) ==
  \E k \in 0..(Len(s) - Len(sub)) : SubSeq(s, k + 1, k + Len(sub)) = sub

Count(s, ch) == Cardinality({k \in 1..Len(s) : s[k] = ch})

\* C3: a write changes the cache only for attributes whose column carries a
\* non-empty value, setting each to exactly that value; an attribute whose
\* column is empty or absent keeps its value; the row of a following scan shows
\* these values in the attributes' columns.
C3_WriteSetsOnlyNonEmpty ==
  [][\A h \in Handlers, r \in RowsOf(table) :
       write_update_row(h, r)
         => \A a \in Attrs :
              LET cols == ColsNamed(table, a)
                  set == {i \in cols : r[i] # <<>>}
              IN /\ \A i \in set : state'[a] = r[i]
                 /\ set = {} => state'[a] = state[a]
                 /\ \A i \in cols : ReadRow(table, state')[i] = state'[a]]_vars

\* C4: a recognized column written with a zero-length value leaves the cached
\* value of its attribute unchanged, and the token name:<that value>, is
\* still sent.
C4_EmptyValueResendsCached ==
  [][\A h \in Handlers, r \in RowsOf(table) :
       write_update_row(h, r)
         => \A a \in Attrs : \A i \in ColsNamed(table, a) :
              r[i] = <<>>
                => /\ state'[a] = state[a]
                   /\ Contains(sent', AttrName(a) \o <<":">> \o state[a] \o <<",">>)]_vars

\* The tokens of the columns of t from i on that bear an attribute's name, each
\* with the value c caches for that attribute.
RECURSIVE TokensOfExactCols(_, _, _)
TokensOfExactCols(t, c, i) ==
  IF i > Len(t) THEN <<>>
  ELSE LET named == {a \in Attrs : AttrName(a) = t[i].field_name}
       IN (IF named = {} THEN <<>>
           ELSE LET a == CHOOSE x \in named : TRUE
                IN AttrName(a) \o <<":">> \o c[a] \o <<",">>)
          \o TokensOfExactCols(t, c, i + 1)

\* C9: the bytes of a write are, in column order, one token
\* <attribute-name>:<value cached after the row>, per recognized column, then
\* one newline; a row without recognized column sends the newline only.
C9_WireIsTokensThenNewline ==
  [][\A h \in Handlers, r \in RowsOf(table) :
       write_update_row(h, r) => sent' = TokensOfExactCols(table, state', 1) \o <<"\n">>]_vars

\* C10: only a column named exactly mode, temperature, power or angle is an
\* attribute; any other column has no cache effect and sends nothing on a
\* write, and reads as "unknown".
C10_OnlyExactNamesAreAttributes ==
  [][/\ \A h \in Handlers, r \in RowsOf(table) :
          write_update_row(h, r)
            => /\ (\A i \in ExactCols(table) : r[i] = <<>>) => state' = state
               /\ Count(sent', ",") = Cardinality(ExactCols(table))
     /\ \A h \in Handlers :
          (rnd_next(h) /\ rc' = RC_OK)
            => \A i \in (1..Len(table)) \ ExactCols(table) : row'[i] = Unknown]_vars

\* The row of table t whose mode column carries "heat" and whose every other
\* column is empty.
HeatRow(t) == [i \in 1..Len(t) |-> IF i \in ColsNamed(t, "mode") THEN Heat ELSE <<>>]

\* A share in its state after a fresh open, on a table that has a mode column.
FreshWithMode == AllUnknown /\ ColsNamed(table, "mode") # {}

\* Whether name n is the first Len(n) characters of name m.
IsPrefix(n, m) == Len(n) <= Len(m) /\ SubSeq(m, 1, Len(n)) = n

\* The cache after "heat" was written to mode on a freshly opened share.
HeatWritten == [a \in Attrs |-> IF a = "mode" THEN Heat ELSE Unknown]

\* C8 as stated: after a fresh open, writing mode = "heat" with every other
\* column empty sends exactly mode:heat,\n, the empty recognized columns
\* contributing no token.
C8_WireIsOneToken ==
  [][\A h \in Handlers :
       (FreshWithMode /\ write_update_row(h, HeatRow(table)))
         => sent' = <<"m", "o", "d", "e", ":", "h", "e", "a", "t", ",", "\n">>]_vars

\* The bytes of the columns of t from i on when mode = "heat" is written to a
\* freshly opened share: every column whose name begins an attribute's name
\* gives one token, with "heat" from the mode column on for the names that
\* begin "mode" and "unknown" otherwise.
RECURSIVE HeatTokens(_, _, _)
HeatTokens(t, i, seen) ==
  IF i > Len(t) THEN <<>>
  ELSE LET n == t[i].field_name
           now == seen \/ n = AttrName("mode")
       IN (IF \E a \in Attrs : IsPrefix(n, AttrName(a))
           THEN n \o <<":">>
                  \o (IF now /\ IsPrefix(n, AttrName("mode")) THEN Heat ELSE Unknown)
                  \o <<",">>
           ELSE <<>>)
          \o HeatTokens(t, i + 1, now)

\* C8: after a fresh open, writing mode = "heat" with every other column empty
\* leaves mode = "heat" and the other attributes "unknown" in the cache; the
\* bytes of that write are one token per column taken for an attribute, the
\* empty ones included with their cached value, then one newline; rnd_init()
\* keeps the cache, and the row of the rnd_next() that follows reads "heat" in
\* the mode column and "unknown" in the temperature, power and angle columns.
C8_WriteHeatThenScan ==
  [][/\ \A h \in Handlers :
          (FreshWithMode /\ write_update_row(h, HeatRow(table)))
            => /\ state' = HeatWritten
               /\ sent' = HeatTokens(table, 1, FALSE) \o <<"\n">>
     /\ \A h \in Handlers : rnd_init(h) => state' = state
     /\ \A h \in Handlers :
          (state = HeatWritten /\ scan[h] = "armed" /\ rnd_next(h))
            => /\ rc' = RC_OK
               /\ \A a \in Attrs : \A i \in ColsNamed(table, a) :
                    row'[i] = HeatWritten[a]]_vars

\* The write of mode = "heat" has just been made on the four-column table and
\* the three empty columns have sent their "unknown" tokens.
C8_Witness ==
  /\ table = TableFull
  /\ last = "write_update_row"
  /\ state = HeatWritten
  /\ Len(sent) > Len(<<"m", "o", "d", "e", ":", "h", "e", "a", "t", ",", "\n">>)
  /\ Contains(sent, <<"m", "o", "d", "e", ":", "h", "e", "a", "t", ",">>)
  /\ Contains(sent, <<"p", "o", "w", "e", "r", ":">> \o Unknown \o <<",">>)

\* C11: an open() in which socket() fails returns a result that is not OK,
\* leaves the share not connected, the four cached attributes and the open
\* descriptors as they were; an open() on a share that is not connected, such as
\* the next one, calls socket() again and, when it gets a descriptor, connects.
C11_SocketFailureIsNotRetained ==
  [][/\ (last' = "open" /\ rc' = RC_SOCKET_FAILED)
          => /\ rc' # RC_OK
             /\ ~socket_opened'
             /\ state' = state
             /\ fds' = fds
             /\ is_open' = is_open
     /\ (last' = "open" /\ ~socket_opened /\ rc' = RC_OK)
          => /\ socket' \in fds' \ fds
             /\ sin_port' # NoPort]_vars

\* socket() has just failed in an open() on a share that a session had used,
\* written "heat" to and closed.
C11_Witness ==
  /\ last = "open"
  /\ rc = RC_SOCKET_FAILED
  /\ ~socket_opened
  /\ share_created
  /\ state["mode"] = Heat

\* C12: an open() whose connect() fails returns a result that is not OK and
\* leaves the share marked not connected.
C12_ConnectFailureFailsOpen ==
  [][(last' = "open" /\ socket' \in fds' \ fds /\ socket' \notin conn')
       => (rc' # RC_OK /\ ~socket_opened')]_vars

\* C13: close() changes the connection only: the socket is closed and the flag
\* cleared, the share stays installed and held, and the four cached attributes
\* are what they were.
C13_CloseKeepsShareAndCache ==
  [][last' = "close"
       => /\ ~socket_opened'
          /\ socket \notin fds'
          /\ socket \notin conn'
          /\ state' = state
          /\ share_created' = share_created
          /\ handler_share' = handler_share
          /\ next_is_eof' = next_is_eof]_vars

\* A close() has just returned and the share still holds the written "heat".
C13_Witness ==
  /\ last = "close"
  /\ share_created
  /\ ~socket_opened
  /\ fds = {}
  /\ state["mode"] = Heat
  /\ \E h \in Handlers : handler_share[h] = "share" /\ ~is_open[h]

\* C16: while the share is connected every cached attribute is the sentinel or
\* the last non-empty value written to that attribute's column since the last
\* reset: a step changes it only to the sentinel or to the non-empty value the
\* row carries in that attribute's column, and it is never empty.
C16_CacheIsSentinelOrLastWrite ==
  [][/\ socket_opened' => \A a \in Attrs : state'[a] # <<>>
     /\ \A h \in Handlers, r \in RowsOf(table) :
          write_update_row(h, r)
            => \A a \in Attrs :
                 state'[a] \in {state[a]} \cup
                     {r[i] : i \in {k \in ColsNamed(table, a) : r[k] # <<>>}}
     /\ last' # "write_update_row"
          => \A a \in Attrs : state'[a] \in {state[a], Unknown}]_vars

\* C17: after a write or update every cached attribute is at most
\* IRCON_COMMAND_LENGTH characters long, a longer written value being cut to
\* that length.
C17_CacheValuesAreBounded ==
  [][\A h \in Handlers, r \in RowsOf(table) :
       write_update_row(h, r)
         => \A a \in Attrs :
              /\ Len(state'[a]) <= IRCON_COMMAND_LENGTH
              /\ \A i \in ColsNamed(table, a) :
                   r[i] # <<>> => state'[a] = Strncpy(r[i], IRCON_COMMAND_LENGTH)]_vars

\* C19: close() shuts down and closes the socket only when the share is
\* connected, so that my_close() never gets a descriptor that is not open, and
\* makes no socket call when the share is already disconnected.
C19_CloseOnlyWhenConnected ==
  [][last' = "close"
       => IF socket_opened
            THEN my_close_rc' = MY_CLOSE_OK
            ELSE my_close_rc' = my_close_rc /\ fds' = fds]_vars

\* The characters of name behind its first ':', or nothing when it has none.
PortSegment(name) ==
  IF \E i \in 1..Len(name) : name[i] = ":"
    THEN SubSeq(name, (CHOOSE i \in 1..Len(name) :
                         name[i] = ":" /\ \A j \in 1..(i - 1) : name[j] # ":") + 1,
                Len(name))
    ELSE <<>>

\* C18: open() takes the port from behind the first ':' of the table name; it
\* connects to the default port when that segment is absent, zero or no
\* positive integer, a negative number included, and to the number otherwise.
C18_PortIsParsedOrDefault ==
  [][(last' = "open" /\ socket' \in fds' \ fds)
       => sin_port' = (IF Atoi(PortSegment(table_name)) > 0
                         THEN Atoi(PortSegment(table_name))
                         ELSE IRCON_DEFAULT_PORT)]_vars

\* C14: a share has at most one socket open at any time, whatever open() and
\* close() calls the sessions make and however they interleave.
C14_AtMostOneSocket == Cardinality(fds) <= 1

\* The labels of a thread between lock_shared_ha_data() and
\* unlock_shared_ha_data().
InGetShare == {"get_ha_share_ptr", "new_share", "unlock"}

\* C15: get_share() is one critical section: at most one Ircon_share is ever
\* constructed, every caller gets the installed one, and no two threads are
\* between the lock and the unlock at once, so that no check of the installed
\* share falls between another caller's check and its installation.
C15_GetShareIsOneCriticalSection ==
  /\ nshares <= 1
  /\ \A h \in Handlers : held[h] \in {0, ha_share_ptr}
  /\ \A h \in Handlers : is_open[h] => (held[h] # 0 /\ held[h] = ha_share_ptr)
  /\ \A h, g \in Handlers : (h # g /\ pc[h] \in InGetShare) => pc[g] \notin InGetShare
  /\ \A h \in Handlers : pc[h] \in InGetShare => ha_lock = h

\* Both sessions are open on the one share, which one of them constructed.
C15_Witness ==
  /\ nshares = 1
  /\ ha_share_ptr = 1
  /\ \A h \in Handlers : is_open[h] /\ held[h] = 1

\* The labels of a thread that is about to call send().
SendLabels == {"send_name", "send_colon", "send_value", "send_comma", "send_newline"}

\* What the send() at the label of thread h passes, and the label behind it.
Piece(h) ==
  CASE pc[h] = "send_name" -> table[wcol[h]].field_name
    [] pc[h] = "send_colon" -> <<":">>
    [] pc[h] = "send_value" -> state[WriteMatch(table[wcol[h]])]
    [] pc[h] = "send_comma" -> <<",">>
    [] pc[h] = "send_newline" -> <<"\n">>

Behind(label) ==
  CASE label = "send_name" -> "send_colon"
    [] label = "send_colon" -> "send_value"
    [] label = "send_value" -> "send_comma"
    [] label = "send_comma" -> "field"
    [] label = "send_newline" -> "idle"

\* Whether the bytes w from position i on, read in mode m, are rows: each row
\* tokens name:value, and then a newline.
RECURSIVE RowsFrom(_, _, _)
RowsFrom(w, i, m) ==
  IF i > Len(w) THEN m = "row"
  ELSE LET ch == w[i]
       IN CASE m = "row" ->
                 IF ch = "\n" THEN RowsFrom(w, i + 1, "row")
                 ELSE ch \notin {":", ","} /\ RowsFrom(w, i + 1, "name")
            [] m = "name" ->
                 IF ch = ":" THEN RowsFrom(w, i + 1, "value")
                 ELSE ch \notin {",", "\n"} /\ RowsFrom(w, i + 1, "name")
            [] m = "value" ->
                 IF ch = "," THEN RowsFrom(w, i + 1, "token")
                 ELSE ch \notin {":", "\n"} /\ RowsFrom(w, i + 1, "value")
            [] m = "token" ->
                 IF ch = "\n" THEN RowsFrom(w, i + 1, "row")
                 ELSE ch \notin {":", ","} /\ RowsFrom(w, i + 1, "name")

Modifying == {"write_update_row", "delete_row"}

C22_ModifyingCallsLeaveTheScanAlone ==
  [][ /\ last' \in Modifying =>
           /\ rc' = RC_OK
           /\ next_is_eof' = next_is_eof
           /\ scan' = scan
      /\ \A h \in Handlers :
           rnd_next(h) => (rc' = HA_ERR_END_OF_FILE) = next_is_eof[h] ]_vars

\* A delete returned 0 to a handler whose scan is exhausted, one whose scan
\* is started and not read, and the flag is still set for the exhausted one.
C22_Witness ==
  /\ last = "delete_row"
  /\ rc = RC_OK
  /\ \E h \in Handlers : is_open[h] /\ scan[h] = "read" /\ next_is_eof[h]
  /\ \E h \in Handlers : is_open[h] /\ scan[h] = "armed" /\ ~next_is_eof[h]

(***************************************************************************)
(* C23: write_update_row compares strlen(field_name) characters, so a      *)
(* field whose name is a proper prefix of an attribute's name is taken for *)
(* that attribute: a token with the field's name and its non-empty value   *)
(* is sent, and the value is the attribute's cached value afterwards       *)
(* unless a later field of the same row stores to the attribute too.       *)
(***************************************************************************)
ProperPrefix(n, m) == Len(n) > 0 /\ Len(n) < Len(m) /\ IsPrefix(n, m)

PrefixCols(t, a) == {i \in 1..Len(t) : ProperPrefix(t[i].field_name, AttrName(a))}

StoresTo(t, r, a) ==
  {k \in 1..Len(t) : IsPrefix(t[k].field_name, AttrName(a)) /\ r[k] # <<>>}

C23_PrefixColumnWritesAttribute ==
  [][ last' = "write_update_row" =>
        \A a \in Attrs :
          PrefixCols(table, a) # {} =>
          \A i \in PrefixCols(table, a), r \in RowsOf(table) :
            (r[i] # <<>> /\ \E h \in Handlers : write_update_row(h, r)) =>
              /\ Contains(sent', Token(table[i].field_name, r[i]))
              /\ (\A k \in StoresTo(table, r, a) : k <= i) => state'[a] = r[i] ]_vars

\* The field "mo" was written "heat": the packet starts with mo:heat, and
\* the cached mode is "heat".
C23_Witness ==
  /\ last = "write_update_row"
  /\ PrefixCols(table, "mode") # {}
  /\ IsPrefix(Token(<<"m", "o">>, Heat), sent)
  /\ state["mode"] = Heat

(***************************************************************************)
(* C25: the results of send() are not looked at.  A write, update or       *)
(* delete on a socket that is closed, was never opened or is not connected *)
(* returns 0 all the same; the delete has reset the four cached values,    *)
(* and the write of a value to one column that carries an attribute's     *)
(* name has stored the value.                                              *)
(***************************************************************************)
\* The row of table t with v in column i and every other column empty.
OneValueRow(t, i, v) == [k \in 1..Len(t) |-> IF k = i THEN v ELSE <<>>]

C25_SendFailureIsNotSurfaced ==
  [][ (last' \in Modifying /\ socket \notin conn) =>
        /\ rc' = RC_OK
        /\ last' = "delete_row" => AllUnknown'
        /\ last' = "write_update_row" =>
             \A a \in Attrs : \A i \in ColsNamed(table, a) :
               \A v \in table[i].inputs \ {<<>>} :
                 \/ state'[a] = v
                 \/ \A h \in Handlers : ~write_update_row(h, OneValueRow(table, i, v)) ]_vars

\* A write returned 0 with "heat" stored for mode after another handler's
\* close() has closed the descriptor.
C25_Witness ==
  /\ last = "write_update_row"
  /\ rc = RC_OK
  /\ socket \notin fds
  /\ ~socket_opened
  /\ ColsNamed(table, "mode") # {}
  /\ IsPrefix(Token(IRCON_COMMAND_MODE, Heat), sent)
  /\ state["mode"] = Heat

(***************************************************************************)
(* C24: the four cached values belong to the share, which all handlers of  *)
(* one table name use.  A non-empty value written to an attribute's column *)
(* by one handler is what rnd_next() of any handler stores in that column, *)
(* as long as no step in between is a write with a value in a column of    *)
(* that attribute's name, a delete, or an open() that connects.            *)
(***************************************************************************)
\* A step in which open() finds the share not connected and connects it.
Reconnects == last' = "open" /\ ~socket_opened /\ socket_opened'

C24_OtherSessionsReadTheWrittenValue ==
  [][\A a \in Attrs :
       /\ \A h \in Handlers :
            (rnd_next(h) /\ rc' = RC_OK)
              => \A i \in ColsNamed(table, a) : row'[i] = state[a]
       /\ (last' # "write_update_row" /\ last' # "delete_row" /\ ~Reconnects)
            => state'[a] = state[a]
       /\ last' = "write_update_row"
            => \A r \in RowsOf(table) :
                 \/ \E i \in ColsNamed(table, a) : r[i] # <<>>
                 \/ state'[a] = state[a]
                 \/ \A h \in Handlers : ~write_update_row(h, r)]_vars

(***************************************************************************)
(* C26: as long as some handler has opened and not closed, the share is    *)
(* marked connected and its socket is an open descriptor, so a close() by  *)
(* one handler leaves the connection of the others standing.               *)
(***************************************************************************)
SomeOpen == \E h \in Handlers : is_open[h]

C26_ConnectedWhileSomeSessionIsOpen ==
  SomeOpen => (socket_opened /\ socket \in fds)

(***************************************************************************)
(* C27: while a handler stays open, the cached values change to "unknown"  *)
(* only by a delete: an open() or a close() of another handler leaves the  *)
(* four values as they are.                                                *)
(***************************************************************************)
StaysOpen == \E h \in Handlers : is_open[h] /\ is_open'[h]

C27_OnlyDeleteResetsForOpenSession ==
  [][(StaysOpen /\ last' \in {"open", "close"}) => state' = state]_vars

(***************************************************************************)
(* C28: write_update_row and rnd_next take every field for the same        *)
(* attribute or both for none, whatever its name and declared length, so   *)
(* a non-empty value written through a field is what the rnd_next() that   *)
(* follows stores in that field.                                           *)
(***************************************************************************)
C28_WriteAndReadMatchAlike ==
  [][last' = "write_update_row" =>
       \A i \in 1..Len(table) :
         /\ WriteMatch(table[i]) = ReadMatch(table[i])
         /\ \A r \in RowsOf(table) :
              \/ r[i] = <<>>
              \/ WriteMatch(table[i]) = NoAttr
              \/ \E k \in (i + 1)..Len(table) :
                   WriteMatch(table[k]) = WriteMatch(table[i]) /\ r[k] # <<>>
              \/ ReadRow(table, state')[i] = r[i]
              \/ \A h \in Handlers : ~write_update_row(h, r)]_vars

(***************************************************************************)
(* C21: the reset of delete_row() and of a connecting open() is one step   *)
(* for the readers.  Every write of SpecScan stores a value in all four    *)
(* buffers, so the buffers are either all "unknown" or none is, and a row  *)
(* that rnd_next() returns shows "unknown" in every column or in none.     *)
(***************************************************************************)
C21_ResetIsAtomicForReaders ==
  (last = "rnd_next" /\ rc = RC_OK)
    => \/ \A i \in 1..Len(row) : row[i] = Unknown
       \/ \A i \in 1..Len(row) : row[i] # Unknown

====
